---- MODULE Spec2Model ----
(***************************************************************************)
(* Model of the rumi-analytica chat front-end: the session provider        *)
(* (AuthProvider), the chat transport (sendChatMessage), the chat input    *)
(* (ChatInput.handleSubmit) and the chat page (Index.handleSendMessage).   *)
(*                                                                         *)
(* The repository holds two component trees.  "front-end" is the chat page *)
(* whose handleSendMessage answers with a fixed text after a timer and     *)
(* uses neither the session nor the transport.  "frontend" adds the        *)
(* session provider and the transport; there the chat input's onSend hands *)
(* the message to sendChatMessage.  tree says which of the two runs.       *)
(*                                                                         *)
(* ev records the last step with its inputs and its outcome (the error a   *)
(* call threw, the value it returned), so that properties can speak of     *)
(* what an operation did.                                                  *)
(*                                                                         *)
(* JavaScript values are tagged tuples: <<"null">>, <<"undefined">>,       *)
(* <<"string", s>>.  Text typed into the chat input is a sequence of       *)
(* characters so that String.prototype.trim can be computed.               *)
(***************************************************************************)
EXTENDS Integers, Sequences, FiniteSets

\* ------------------------------------------------------------------ bounds
MaxLogins == 1      \* login calls that may be in flight at the same time
MaxSends == 1       \* sendChatMessage calls that may be in flight at the same time
MaxLog == 4         \* entries of the conversation log

\* ------------------------------------------------------- JavaScript values
NULL == <<"null">>
UNDEF == <<"undefined">>
Str(s) == <<"string", s>>

\* ToBoolean: null, undefined and "" are falsy, every other string is truthy
Truthy(v) == /\ v # NULL
             /\ v # UNDEF
             /\ v # Str("")

\* ToString, applied by Storage.setItem to the value it is handed
ToString(v) == IF v = UNDEF THEN Str("undefined")
               ELSE IF v = NULL THEN Str("null")
               ELSE v

\* ------------------------------------------------------------ input domains
Usernames == {"alice", "bob"}
Passwords == {"pw"}
\* access_token of a success body of POST /token; UNDEF: the body has no such field
AccessTokens == {UNDEF, Str(""), Str("tokB")}
\* HTTP statuses a backend may answer with
Statuses == {200, 201, 401, 500}
Replies == {"hi", "ok"}
\* the characters String.prototype.trim strips, among those that are typed
Whitespace == {" "}
\* what localStorage may hold when the page is loaded
StoredTokens == {NULL, Str("tokA")}
StoredUsernames == {NULL, Str("alice")}

\* Response.ok
ok(status) == status >= 200 /\ status <= 299

\* answers of POST /token: a success body with or without an access_token, or
\* an error status, whose body has none
TokenResponses ==
  {[status |-> s, access_token |-> t] : s \in {x \in Statuses : ok(x)}, t \in AccessTokens}
    \cup {[status |-> s, access_token |-> UNDEF] : s \in {x \in Statuses : ~ok(x)}}

\* answers of POST /api/chat: a success body {response}, or an error status
ChatResponses ==
  {[status |-> s, body |-> [response |-> r]] : s \in {x \in Statuses : ok(x)}, r \in Replies}
    \cup {[status |-> s, body |-> NULL] : s \in {x \in Statuses : ~ok(x)}}

\* key presses in the chat input
KeyEvents == {[key |-> "Enter", shiftKey |-> FALSE], [key |-> "Enter", shiftKey |-> TRUE],
              [key |-> "a", shiftKey |-> FALSE]}

\* ------------------------------------------------------------------- errors
\* Error messages thrown by the code; status is the interpolated number, 0 if none
InvalidCredentials == [message |-> "Invalid username or password", status |-> 0]
NotAuthenticated == [message |-> "Not authenticated", status |-> 0]
SessionExpired == [message |-> "Session expired. Please login again.", status |-> 0]
BackendError(status) == [message |-> "Backend error: ", status |-> status]
\* fetch itself rejects (unreachable host)
FailedToFetch == [message |-> "Failed to fetch", status |-> 0]
NoError == [message |-> "", status |-> 0]

\* ------------------------------------------------------------ notifications
\* a catch block that swallows the error
loginCatchSilent(error) == <<>>

\* catch block of Login.handleSubmit: the toasts it shows for error
loginCatch(error) ==
  <<[title |-> "Authentication Failed", description |-> error.message,
     variant |-> "destructive"]>>

\* catch block of Index.handleSendMessage: the toasts it shows for error
sendCatch(error) ==
  <<[title |-> "Error", description |-> "Failed to send message. Please try again.",
     variant |-> "destructive"]>>

\* what the frontend tree's chat page does with a rejected sendChatMessage:
\* the catch block of the chat page's send handler
onSendRejected(error) == sendCatch(error)

\* --------------------------------------------------------------------- text
\* what the user may type into the chat input: nothing, blanks only, a word,
\* a word with blanks around it, two words
Texts == {<<>>, <<" ">>, <<" ", " ">>, <<"h">>, <<" ", "h", " ">>, <<"h", " ", "i">>}

\* String.prototype.trim, as used by ChatInput
RECURSIVE trimStart(_)
trimStart(s) ==
  IF s # <<>> /\ Head(s) \in Whitespace THEN trimStart(Tail(s)) ELSE s

RECURSIVE trimEnd(_)
trimEnd(s) ==
  IF s # <<>> /\ s[Len(s)] \in Whitespace
  THEN trimEnd(SubSeq(s, 1, Len(s) - 1))
  ELSE s

trim(s) == trimEnd(trimStart(s))

\* the reply the chat page shows while the backend is not wired
PlaceholderReply == "I'm ready to help you analyze your Google Analytics data! However, the backend integration is not yet configured. Please connect the FastAPI backend or set up Lovable Cloud Edge Functions to enable full functionality."

VARIABLES
  tree,        \* which component tree is mounted: "frontend" or "front-end"
  token,       \* AuthProvider state
  username,    \* AuthProvider state
  storage,     \* localStorage: [access_token, username]
  mounted,     \* the provider's mount effect has run
  logins,      \* login calls awaiting the response of POST /token
  message,     \* ChatInput state: the text in the input box
  sends,       \* sendChatMessage calls awaiting the response of POST /api/chat
  messages,    \* Index state: the conversation log
  isLoading,   \* Index state: the busy flag
  timers,      \* Index: pending setTimeout promises of handleSendMessage
  ev,          \* the last step taken
  loggedOut    \* history: logout was called and no login was started since

vars == <<tree, token, username, storage, mounted, logins, message, sends,
          messages, isLoading, timers, ev, loggedOut>>

authVars == <<token, username, storage, mounted, logins, loggedOut>>
pageVars == <<messages, isLoading, timers>>

session == <<token, username, storage>>

\* AuthContext value: isAuthenticated: !!token
isAuthenticated == Truthy(token)

Init ==
  /\ tree \in {"frontend", "front-end"}
  /\ token = NULL
  /\ username = NULL
  /\ storage \in [access_token : StoredTokens, username : StoredUsernames]
  /\ tree = "front-end" => storage = [access_token |-> NULL, username |-> NULL]
  /\ mounted = FALSE
  /\ logins = <<>>
  /\ message = <<>>
  /\ sends = <<>>
  /\ messages = <<>>
  /\ isLoading = FALSE
  /\ timers = 0
  /\ ev = [op |-> "init"]
  /\ loggedOut = FALSE

\* the mount effect with || in place of &&
RehydrateEitherField ==
  /\ tree = "frontend"
  /\ ~mounted
  /\ mounted' = TRUE
  /\ LET storedToken == storage.access_token
         storedUsername == storage.username
     IN IF Truthy(storedToken) \/ Truthy(storedUsername)
        THEN token' = storedToken /\ username' = storedUsername
        ELSE UNCHANGED <<token, username>>
  /\ ev' = [op |-> "rehydrate"]
  /\ UNCHANGED <<tree, storage, logins, message, sends, pageVars, loggedOut>>

\* useEffect(() => {...}, []) of AuthProvider
Rehydrate ==
  /\ tree = "frontend"
  /\ ~mounted
  /\ mounted' = TRUE
  /\ LET storedToken == storage.access_token
         storedUsername == storage.username
     IN IF Truthy(storedToken) /\ Truthy(storedUsername)
        THEN token' = storedToken /\ username' = storedUsername
        ELSE UNCHANGED <<token, username>>
  /\ ev' = [op |-> "rehydrate"]
  /\ UNCHANGED <<tree, storage, logins, message, sends, pageVars, loggedOut>>

Remove(s, i) == SubSeq(s, 1, i - 1) \o SubSeq(s, i + 1, Len(s))

\* login, up to the await of fetch
LoginCall(u, p) ==
  /\ tree = "frontend"
  /\ mounted
  /\ Len(logins) < MaxLogins
  /\ logins' = Append(logins, [username |-> u, password |-> p])
  /\ ev' = [op |-> "loginCall"]
  /\ loggedOut' = FALSE
  /\ UNCHANGED <<tree, token, username, storage, mounted, message, sends, pageVars>>

\* login, fetch rejects
LoginNetworkFailure(i) ==
  /\ i \in 1..Len(logins)
  /\ logins' = Remove(logins, i)
  /\ ev' = [op |-> "loginNetworkFailure", error |-> FailedToFetch,
            toasts |-> loginCatch(FailedToFetch)]
  /\ UNCHANGED <<tree, token, username, storage, mounted, message, sends, pageVars,
                 loggedOut>>

\* login that drops the stored session when the credentials are refused
LoginResponseClearsOnFailure(i, status, access_token) ==
  /\ i \in 1..Len(logins)
  /\ logins' = Remove(logins, i)
  /\ IF ~ok(status)
     THEN /\ ev' = [op |-> "loginResponse", status |-> status,
                    error |-> InvalidCredentials,
                    toasts |-> loginCatch(InvalidCredentials)]
          /\ storage' = [access_token |-> NULL, username |-> NULL]
          /\ UNCHANGED <<token, username>>
     ELSE /\ token' = access_token
          /\ username' = Str(logins[i].username)
          /\ storage' = [access_token |-> ToString(access_token),
                         username |-> ToString(Str(logins[i].username))]
          /\ ev' = [op |-> "loginResponse", status |-> status,
                    username |-> logins[i].username, access_token |-> access_token,
                    error |-> NoError, toasts |-> <<>>]
  /\ UNCHANGED <<tree, mounted, message, sends, pageVars, loggedOut>>

\* login, from the response on: status and the access_token of its body
LoginResponse(i, status, access_token) ==
  /\ i \in 1..Len(logins)
  /\ logins' = Remove(logins, i)
  /\ IF ~ok(status)
     THEN /\ ev' = [op |-> "loginResponse", status |-> status,
                    error |-> InvalidCredentials,
                    toasts |-> loginCatch(InvalidCredentials)]
          /\ UNCHANGED <<token, username, storage>>
     ELSE /\ token' = access_token
          /\ username' = Str(logins[i].username)
          /\ storage' = [access_token |-> ToString(access_token),
                         username |-> ToString(Str(logins[i].username))]
          /\ ev' = [op |-> "loginResponse", status |-> status,
                    username |-> logins[i].username, access_token |-> access_token,
                    error |-> NoError, toasts |-> <<>>]
  /\ UNCHANGED <<tree, mounted, message, sends, pageVars, loggedOut>>

\* logout that forgets localStorage.removeItem("username")
logoutKeepsStoredUsername ==
  /\ tree = "frontend"
  /\ mounted
  /\ token' = NULL
  /\ username' = NULL
  /\ storage' = [storage EXCEPT !.access_token = NULL]
  /\ ev' = [op |-> "logout"]
  /\ loggedOut' = TRUE
  /\ UNCHANGED <<tree, mounted, logins, message, sends, pageVars>>

\* logout
logout ==
  /\ tree = "frontend"
  /\ mounted
  /\ token' = NULL
  /\ username' = NULL
  /\ storage' = [access_token |-> NULL, username |-> NULL]
  /\ ev' = [op |-> "logout"]
  /\ loggedOut' = TRUE
  /\ UNCHANGED <<tree, mounted, logins, message, sends, pageVars>>

\* ------------------------------------------------------------ chat transport
\* sendChatMessage without the token check
sendChatMessageUnchecked(m) ==
  LET stored == storage.access_token
  IN /\ sends' = Append(sends, [message |-> m, bearer |-> ToString(stored), fetches |-> 1])
     /\ ev' = [op |-> "send", error |-> NoError, toasts |-> <<>>]
     /\ UNCHANGED <<authVars, pageVars>>

\* sendChatMessage(m), up to the await of fetch
sendChatMessage(m) ==
  LET stored == storage.access_token
  IN /\ IF ~Truthy(stored)
        THEN /\ sends' = sends
             /\ ev' = [op |-> "send", error |-> NotAuthenticated,
                       toasts |-> onSendRejected(NotAuthenticated)]
        ELSE /\ sends' = Append(sends, [message |-> m, bearer |-> stored, fetches |-> 1])
             /\ ev' = [op |-> "send", error |-> NoError, toasts |-> <<>>]
     /\ UNCHANGED <<authVars, pageVars>>

\* sendChatMessage, fetch rejects
SendNetworkFailure(i) ==
  /\ i \in 1..Len(sends)
  /\ sends' = Remove(sends, i)
  /\ ev' = [op |-> "sendNetworkFailure", fetches |-> sends[i].fetches,
            error |-> FailedToFetch, toasts |-> onSendRejected(FailedToFetch)]
  /\ UNCHANGED <<tree, authVars, message, pageVars>>

\* sendChatMessage that does not tell 401 from the other error statuses
SendResponseNo401(i, status, body) ==
  /\ i \in 1..Len(sends)
  /\ sends' = Remove(sends, i)
  /\ IF ~ok(status)
     THEN ev' = [op |-> "sendResponse", status |-> status,
                 fetches |-> sends[i].fetches,
                 error |-> BackendError(status), result |-> NULL,
                      toasts |-> onSendRejected(BackendError(status))]
     ELSE ev' = [op |-> "sendResponse", status |-> status, body |-> body,
                 fetches |-> sends[i].fetches,
                 error |-> NoError, result |-> body, toasts |-> <<>>]
  /\ UNCHANGED <<tree, authVars, message, pageVars>>

\* sendChatMessage that fetches a second time when the first answer is an error
SendResponseRetry(i, status, body) ==
  /\ i \in 1..Len(sends)
  /\ IF ~ok(status) /\ sends[i].fetches = 1
     THEN /\ sends' = [sends EXCEPT ![i].fetches = 2]
          /\ ev' = [op |-> "sendRetry"]
     ELSE /\ sends' = Remove(sends, i)
          /\ IF ~ok(status)
             THEN ev' = [op |-> "sendResponse", status |-> status,
                         fetches |-> sends[i].fetches,
                         error |-> IF status = 401 THEN SessionExpired
                                   ELSE BackendError(status),
                         result |-> NULL,
                         toasts |-> onSendRejected(IF status = 401 THEN SessionExpired
                                                   ELSE BackendError(status))]
             ELSE ev' = [op |-> "sendResponse", status |-> status, body |-> body,
                         fetches |-> sends[i].fetches,
                         error |-> NoError, result |-> body, toasts |-> <<>>]
  /\ UNCHANGED <<tree, authVars, message, pageVars>>

\* sendChatMessage that ends the session when the backend answers 401
SendResponseLogoutOn401(i, status, body) ==
  /\ i \in 1..Len(sends)
  /\ sends' = Remove(sends, i)
  /\ IF ~ok(status)
     THEN IF status = 401
          THEN /\ ev' = [op |-> "sendResponse", status |-> status,
                         fetches |-> sends[i].fetches,
                         error |-> SessionExpired, result |-> NULL,
                         toasts |-> onSendRejected(SessionExpired)]
               /\ token' = NULL
               /\ username' = NULL
               /\ storage' = [access_token |-> NULL, username |-> NULL]
          ELSE /\ ev' = [op |-> "sendResponse", status |-> status,
                         fetches |-> sends[i].fetches,
                         error |-> BackendError(status), result |-> NULL,
                         toasts |-> onSendRejected(BackendError(status))]
               /\ UNCHANGED <<token, username, storage>>
     ELSE /\ ev' = [op |-> "sendResponse", status |-> status, body |-> body,
                    fetches |-> sends[i].fetches,
                    error |-> NoError, result |-> body, toasts |-> <<>>]
          /\ UNCHANGED <<token, username, storage>>
  /\ UNCHANGED <<tree, mounted, logins, loggedOut, message, pageVars>>

\* sendChatMessage, from the response on: status and the parsed body
SendResponse(i, status, body) ==
  /\ i \in 1..Len(sends)
  /\ sends' = Remove(sends, i)
  /\ IF ~ok(status)
     THEN IF status = 401
          THEN ev' = [op |-> "sendResponse", status |-> status,
                      fetches |-> sends[i].fetches,
                      error |-> SessionExpired, result |-> NULL,
                      toasts |-> onSendRejected(SessionExpired)]
          ELSE ev' = [op |-> "sendResponse", status |-> status,
                      fetches |-> sends[i].fetches,
                      error |-> BackendError(status), result |-> NULL,
                      toasts |-> onSendRejected(BackendError(status))]
     ELSE ev' = [op |-> "sendResponse", status |-> status, body |-> body,
                 fetches |-> sends[i].fetches,
                 error |-> NoError, result |-> body, toasts |-> <<>>]
  /\ UNCHANGED <<tree, authVars, message, pageVars>>

\* ------------------------------------------------------------------ chat page
\* handleSendMessage that forgets setIsLoading(true)
handleSendMessageNotBusy(content) ==
  /\ Len(messages) + 2 <= MaxLog
  /\ messages' = Append(messages, [role |-> "user", content |-> content])
  /\ isLoading' = isLoading
  /\ timers' = timers + 1
  /\ ev' = [op |-> "handleSendMessage"]
  /\ UNCHANGED <<authVars, sends>>

\* Index.handleSendMessage(content), up to the await of the timer
handleSendMessage(content) ==
  /\ Len(messages) + 2 <= MaxLog
  /\ messages' = Append(messages, [role |-> "user", content |-> content])
  /\ isLoading' = TRUE
  /\ timers' = timers + 1
  /\ ev' = [op |-> "handleSendMessage"]
  /\ UNCHANGED <<authVars, sends>>

\* the tail of handleSendMessage with the reply put in place of the last entry
TimerResolvedOverwrites ==
  /\ timers > 0
  /\ timers' = timers - 1
  /\ messages' = [messages EXCEPT ![Len(messages)] =
                     [role |-> "assistant", content |-> PlaceholderReply]]
  /\ isLoading' = FALSE
  /\ ev' = [op |-> "timerResolved"]
  /\ UNCHANGED <<tree, authVars, message, sends>>

\* the tail of handleSendMessage without the finally block
TimerResolvedStaysBusy ==
  /\ timers > 0
  /\ timers' = timers - 1
  /\ messages' = Append(messages, [role |-> "assistant", content |-> PlaceholderReply])
  /\ isLoading' = isLoading
  /\ ev' = [op |-> "timerResolved"]
  /\ UNCHANGED <<tree, authVars, message, sends>>

\* Index.handleSendMessage, after the timer: the try block's tail and finally
TimerResolved ==
  /\ timers > 0
  /\ timers' = timers - 1
  /\ messages' = Append(messages, [role |-> "assistant", content |-> PlaceholderReply])
  /\ isLoading' = FALSE
  /\ ev' = [op |-> "timerResolved"]
  /\ UNCHANGED <<tree, authVars, message, sends>>

\* the disabled prop Index hands to ChatInput
disabled == isLoading

\* the onSend prop of ChatInput: Index.handleSendMessage in the front-end tree,
\* the chat transport in the frontend tree
onSend(content) ==
  IF tree = "front-end"
  THEN handleSendMessage(content)
  ELSE mounted /\ Len(sends) < MaxSends /\ sendChatMessage(content)

\* ----------------------------------------------------------------- chat input
\* Textarea onChange
onChange(text) ==
  /\ tree = "frontend" => mounted
  /\ ~disabled
  /\ text # message
  /\ message' = text
  /\ ev' = [op |-> "change"]
  /\ UNCHANGED <<tree, authVars, sends, pageVars>>

\* handleSubmit that tests message where the code tests message.trim()
handleSubmitUntrimmedTest ==
  /\ IF message # <<>> /\ ~disabled
     THEN /\ onSend(trim(message))
          /\ message' = <<>>
     ELSE /\ ev' = [op |-> "submitIgnored", text |-> message]
          /\ UNCHANGED <<authVars, message, sends, pageVars>>
  /\ UNCHANGED tree

\* ChatInput.handleSubmit
handleSubmit ==
  /\ IF trim(message) # <<>> /\ ~disabled
     THEN /\ onSend(trim(message))
          /\ message' = <<>>
     ELSE /\ ev' = [op |-> "submitIgnored", text |-> message]
          /\ UNCHANGED <<authVars, message, sends, pageVars>>
  /\ UNCHANGED tree

\* ChatInput.handleKeyDown
handleKeyDown(key, shiftKey) ==
  IF key = "Enter" /\ ~shiftKey
  THEN handleSubmit
  ELSE /\ ev' = [op |-> "keyDown"]
       /\ UNCHANGED <<tree, authVars, message, sends, pageVars>>

Next ==
  \/ Rehydrate
  \/ \E u \in Usernames, p \in Passwords : LoginCall(u, p)
  \/ \E i \in 1..MaxLogins : LoginNetworkFailure(i)
  \/ \E i \in 1..MaxLogins, r \in TokenResponses : LoginResponse(i, r.status, r.access_token)
  \/ logout
  \/ \E text \in Texts : onChange(text)
  \/ handleSubmit
  \/ \E k \in KeyEvents : handleKeyDown(k.key, k.shiftKey)
  \/ \E i \in 1..MaxSends : SendNetworkFailure(i)
  \/ \E i \in 1..MaxSends, r \in ChatResponses : SendResponse(i, r.status, r.body)
  \/ TimerResolved

Spec == Init /\ [][Next]_vars

\* setTimeout(resolve, 1000) fires: a pending timer promise resolves
FairSpec == Spec /\ WF_vars(TimerResolved)

\* ---------------------------------------------------------------------------
\* Properties
\* ---------------------------------------------------------------------------

Present(v) == Truthy(v)
StorageCleared == storage = [access_token |-> NULL, username |-> NULL]
\* a step that changes something
Step == vars' # vars

\* C1: in every reachable state the in-memory token and identity are both
\* present or both absent.
C1_TokenAndIdentityTogether == Present(token) <=> Present(username)

\* C2: a login whose request gets a non-success status raises the
\* authentication failure and leaves token, identity and both persisted
\* fields as they were.
C2_FailedLoginKeepsState ==
  [][(ev'.op = "loginResponse" /\ ~ok(ev'.status))
       => /\ ev'.error = InvalidCredentials
          /\ token' = token
          /\ username' = username
          /\ storage' = storage]_vars

\* C2 witness: credentials were refused while a session was stored and in memory
C2_Witness ==
  /\ ev.op = "loginResponse"
  /\ ~ok(ev.status)
  /\ ev.error = InvalidCredentials
  /\ Present(token)
  /\ Present(storage.access_token)

\* C3: a login whose request succeeds sets token to the returned access_token
\* and identity to the submitted one, persists the same two values, and
\* leaves both fields present in memory and in storage.
C3_LoginSuccessSetsSession ==
  [][(ev'.op = "loginResponse" /\ ok(ev'.status))
       => /\ token' = ev'.access_token
          /\ username' = Str(ev'.username)
          /\ storage'.access_token = token'
          /\ storage'.username = username'
          /\ Present(token') /\ Present(username')
          /\ Present(storage'.access_token) /\ Present(storage'.username)]_vars

\* C4: logout clears token, identity and both persisted fields in any state,
\* and a second logout right after changes nothing.
C4_LogoutClearsAndIsIdempotent ==
  [][/\ ev'.op = "logout"
          => token' = NULL /\ username' = NULL /\ StorageCleared'
     /\ (ev.op = "logout" /\ ev'.op = "logout") => UNCHANGED vars]_vars

\* C4 witness: logout has run while a login was still awaiting its response
C4_Witness ==
  /\ ev.op = "logout"
  /\ token = NULL /\ username = NULL /\ StorageCleared
  /\ Len(logins) > 0

\* C5: the mount effect runs once; with both fields stored the session becomes
\* that pair, with one field or none stored the session is logged-out.
C5_RehydrateBothOrNothing ==
  [][/\ (ev'.op = "rehydrate" /\ Step)
          => IF Present(storage.access_token) /\ Present(storage.username)
             THEN token' = storage.access_token /\ username' = storage.username
             ELSE token' = NULL /\ username' = NULL /\ ~isAuthenticated'
     /\ (mounted /\ Step) => ev'.op # "rehydrate"]_vars

\* C5 witness: mounted with a stored token and no stored identity, logged-out
C5_Witness ==
  /\ ev.op = "rehydrate"
  /\ Present(storage.access_token)
  /\ ~Present(storage.username)
  /\ token = NULL /\ username = NULL

\* C6: a send with no token in local storage fails with the not-authenticated
\* error and issues no request.
C6_SendWithoutTokenStaysLocal ==
  [][(ev'.op = "send" /\ Step /\ ~Present(storage.access_token))
       => ev'.error = NotAuthenticated /\ sends' = sends]_vars

\* C6 witness: a send was refused locally, nothing in flight
C6_Witness ==
  /\ ev.op = "send"
  /\ ev.error = NotAuthenticated
  /\ ~Present(storage.access_token)
  /\ sends = <<>>

\* C7: a 401 answer fails the send with the session-expired error, any other
\* non-success status s fails it with the backend error carrying s, and no
\* non-success status yields a reply.
C7_ErrorStatusClassified ==
  [][(ev'.op = "sendResponse" /\ ~ok(ev'.status))
       => /\ ev'.status = 401 => ev'.error = SessionExpired
          /\ ev'.status # 401 => ev'.error = BackendError(ev'.status)
          /\ ev'.error # NoError
          /\ ev'.result = NULL]_vars

\* C7 witness: a 500 answer arrived
C7_Witness ==
  /\ ev.op = "sendResponse"
  /\ ev.status = 500
  /\ ev.error = BackendError(500)

\* C8: a send with a token stored issues one request carrying the message and
\* the stored token, a success answer is returned unchanged, and no send ever
\* fetches a second time.
C8_OneRequestReplyVerbatim ==
  [][/\ (ev'.op = "send" /\ Step /\ Present(storage.access_token))
          => sends' = Append(sends, [message |-> trim(message),
                                     bearer |-> storage.access_token,
                                     fetches |-> 1])
     /\ (ev'.op = "sendResponse" /\ ok(ev'.status))
          => ev'.result = ev'.body /\ ev'.fetches = 1
     /\ ev'.op \in {"sendResponse", "sendNetworkFailure"} => ev'.fetches = 1
     /\ \A i \in 1..Len(sends') : sends'[i].fetches = 1
     /\ ev'.op # "send" => Len(sends') <= Len(sends)]_vars

\* C8 witness: a success answer was returned
C8_Witness ==
  /\ ev.op = "sendResponse"
  /\ ok(ev.status)
  /\ ev.result = [response |-> "hi"]
  /\ ev.fetches = 1

C10_RoundTripLog ==
  (ev.op = "timerResolved" /\ Len(messages) <= 2)
    => /\ Len(messages) = 2
       /\ messages[1].role = "user"
       /\ messages[2].role = "assistant"
       /\ messages[2].content \in Replies

\* s is a prefix of t, entry by entry
IsPrefix(s, t) ==
  /\ Len(s) <= Len(t)
  /\ \A i \in 1..Len(s) : t[i].role = s[i].role /\ t[i].content = s[i].content

\* C11: the conversation log only grows at its end: in every step the log
\* before is a prefix of the log after.
C11_LogAppendOnly == [][IsPrefix(messages, messages')]_vars

\* C11 witness: two sends have completed, four entries in order
C11_Witness ==
  /\ Len(messages) = 4
  /\ messages[1].role = "user" /\ messages[2].role = "assistant"
  /\ messages[3].role = "user" /\ messages[4].role = "assistant"

\* C12: at most one send of the chat page is outstanding; the busy flag is set
\* while it is, and while the flag is set no step (a submit by button or by
\* Enter included) starts another send or adds a user entry.
C12_OneSendOutstanding ==
  [][/\ timers' <= 1
     /\ timers' > 0 => isLoading'
     /\ isLoading => /\ timers' <= timers
                     /\ \A i \in Len(messages) + 1..Len(messages') :
                          messages'[i].role # "user"]_vars

\* C12 witness: a submit was ignored while a send was outstanding
C12_Witness ==
  /\ ev.op = "submitIgnored"
  /\ isLoading
  /\ timers = 1

\* C13: the busy flag is cleared when the outstanding send completes, stays
\* set while it is outstanding, and, every pending send completing at last,
\* a busy page always becomes non-busy again.
C13_BusyFlagCleared ==
  /\ [][(ev'.op = "timerResolved" /\ Step) => ~isLoading']_vars
  /\ [](timers > 0 => isLoading)
  /\ (isLoading ~> ~isLoading)

\* C13 witness: a send has completed and the page is idle again
C13_Witness ==
  /\ ev.op = "timerResolved"
  /\ ~isLoading
  /\ timers = 0
  /\ Len(messages) = 2

LoginFailed ==
  \/ ev'.op = "loginNetworkFailure"
  \/ ev'.op = "loginResponse" /\ ~ok(ev'.status)

SendFailed ==
  \/ ev'.op = "sendNetworkFailure"
  \/ ev'.op = "sendResponse" /\ ~ok(ev'.status)
  \/ ev'.op = "send" /\ ev'.error = NotAuthenticated

SendOps == {"send", "sendResponse", "sendNetworkFailure",
            "handleSendMessage", "timerResolved"}

\* C15: a send, whatever its outcome, leaves the in-memory token and identity
\* and both persisted fields as they were; after a 401 the rejected token is
\* still stored and isAuthenticated is what it was before.
C15_SendLeavesSession ==
  [][ev'.op \in SendOps
       => /\ token' = token
          /\ username' = username
          /\ storage' = storage
          /\ isAuthenticated' = isAuthenticated]_vars

\* C15 witness: a send was answered 401 and the session is still there
C15_Witness ==
  /\ ev.op = "sendResponse"
  /\ ev.error = SessionExpired
  /\ storage.access_token = Str("tokA")
  /\ token = Str("tokA")
  /\ isAuthenticated

\* C17: once logout has been called and no login has been started since, the
\* session is logged-out in memory and in storage, whatever responses of
\* earlier logins arrive.
C17_LogoutStays ==
  loggedOut => /\ ~Present(token)
               /\ ~Present(username)
               /\ StorageCleared

\* C18: the transport and the provider agree: a send issues a request only
\* when isAuthenticated is true, and fails with "Not authenticated" whenever
\* isAuthenticated is false.
C18_TransportAgreesWithProvider ==
  [][(ev'.op = "send" /\ Step)
       => /\ ev'.error = NoError => isAuthenticated
          /\ ~isAuthenticated => ev'.error = NotAuthenticated]_vars

\* C19: once the mount effect has run and no login call is awaiting its
\* response, the in-memory session equals the persisted session: token equals
\* the stored access token and username the stored identity label.
C19_MemoryEqualsStorage ==
  (mounted /\ logins = <<>>)
    => /\ token = storage.access_token
       /\ username = storage.username

====
